---- MODULE Spec2Model ----
(***************************************************************************)
(* douga: the on-demand media-derivation cache (ConversionManager and the  *)
(* /watch handlers) and the asynchronous upload job pipeline (State.jobs,  *)
(* uploadVideo, process/processJob, getJobStatus).                          *)
(*                                                                         *)
(* Every section of code that runs under cm.mu is one action: the mutex is *)
(* never held across two actions, so the interleavings of the actions are  *)
(* the interleavings of the goroutines.  File-system and network calls     *)
(* made outside the mutex are actions of their own.                        *)
(***************************************************************************)
EXTENDS Integers, FiniteSets, Sequences, TLC

(* ------------------------------- bounds -------------------------------- *)
\* request goroutines of the /watch handler; each serves one request
NumReqs == 2
\* the clock stops advancing after MaxTime minutes
MaxTime == 35
\* upload requests
MaxJobs == 2

(* -------------------------- program constants -------------------------- *)
\* cleanupRoutine: now.Sub(LastAccessed) > 30*time.Minute
TTL == 30
\* NewConversionManager: time.NewTicker(5 * time.Minute)
TickerPeriod == 5
\* job.progress values written by uploadVideo and processJob
ProgressCreated == 1
ProgressResolved == 10
ProgressCompleted == 100

Reqs == 1..NumReqs
\* a *Conversion / *Thumbnail is identified by the request that allocated it
\* (os.MkdirTemp gives every allocation a fresh directory); Nil is a nil pointer
ObjIds == 1..NumReqs
Nil == 0
Kinds == {"hls", "thumb"}

\* a file name is a stem and an extension; a request path is a sequence of names
PLAYLIST == [stem |-> "playlist", ext |-> ".m3u8"]
SEGMENT0 == [stem |-> "segment0", ext |-> ".ts"]
THUMBNAIL == [stem |-> "thumbnail", ext |-> ".jpg"]
DOTDOT == [stem |-> "..", ext |-> ""]
SECRET == [stem |-> "secret", ext |-> ""]
VIDEOMP4 == [stem |-> "video", ext |-> ".mp4"]
Paths == {<<PLAYLIST>>, <<SEGMENT0>>, <<THUMBNAIL>>, <<DOTDOT, SECRET>>,
          <<VIDEOMP4>>}
DIDs == {"", "did1"}
CIDs == {"", "cid1"}
\* the requests the router delivers: every path for a full key, and one
\* request for each missing route parameter
Requests ==
  {[did |-> "did1", cid |-> "cid1", path |-> p] : p \in Paths}
  \cup {[did |-> "", cid |-> "cid1", path |-> <<PLAYLIST>>],
        [did |-> "did1", cid |-> "", path |-> <<THUMBNAIL>>]}

\* filepath.Base: the last element of the path
Base(p) == p[Len(p)]
\* filepath.Ext: the suffix beginning at the final dot of the name
Ext(name) == name.ext

\* fmt.Sprintf("%s/%s", did, cid) and fmt.Sprintf("thumb_%s_%s", did, cid):
\* the two tables are separate maps, so a key is the pair within its table
Key(did, cid) == <<did, cid>>
Keys == {Key(d, c) : d \in DIDs \ {""}, c \in CIDs \ {""}}

VARIABLES
  now,        \* time.Now(), in minutes
  tick,       \* cm.cleanupTicker.C holds a tick (the channel buffers one)
  tables,     \* cm.conversions ("hls") and cm.thumbnails ("thumb"): key -> pointer
  entries,    \* the heap of Conversion / Thumbnail objects
  dirs,       \* temporary directories that exist on disk (by allocation)
  outputs,    \* directories that hold the derived output (playlist+segments / thumbnail.jpg)
  scratch,    \* blob_* scratch files on disk, by the request that created them
  evicted,    \* history: objects the sweeper has removed
  req,        \* the /watch request goroutines
  allowedDIDs,\* State.allowedDIDs
  jobs,       \* State.jobs: job id -> Job (or NoJob)
  up,         \* the uploadVideo handler goroutines, one per job id
  worker,     \* the detached State.process goroutines, one per job id
  stored,     \* history: the sequence of Job values stored under each id
  query,      \* the last getJobStatus call and its answer
  crashed     \* the process died of an unrecovered panic in a detached goroutine

artifactVars == <<now, tick, tables, entries, dirs, outputs, scratch, evicted, req>>
jobVars == <<allowedDIDs, jobs, up, worker, stored, query, crashed>>
vars == <<now, tick, tables, entries, dirs, outputs, scratch, evicted, req,
          allowedDIDs, jobs, up, worker, stored, query, crashed>>

(* ------------------------------ the cache ------------------------------ *)
NoEntry == [allocated |-> FALSE, kind |-> "hls", key |-> <<"", "">>,
            LastAccessed |-> 0, InProgress |-> FALSE, Error |-> "nil"]
IdleReq == [pc |-> "idle", did |-> "", cid |-> "", path |-> <<PLAYLIST>>,
            kind |-> "hls", conv |-> Nil, status |-> 0,
            ret |-> "nil", dl |-> FALSE, tool |-> FALSE,
            joined |-> FALSE, hit |-> FALSE]

ArtifactInit ==
  /\ now = 0
  /\ tick = FALSE
  /\ tables = [k \in Kinds |-> [key \in Keys |-> Nil]]
  /\ entries = [i \in ObjIds |-> NoEntry]
  /\ dirs = {}
  /\ outputs = {}
  /\ scratch = {}
  /\ evicted = {}
  /\ req = [r \in Reqs |-> IdleReq]

\* the numbers of ticker periods that elapse between two steps of the program:
\* the longest idle time within TTL, and the shortest beyond it
ElapsedPeriods == {TTL \div TickerPeriod, TTL \div TickerPeriod + 1}

\* the ticker fires every TickerPeriod minutes; a tick the sweeper has not yet
\* taken stays in the channel (cleanupTicker.C buffers one), further ones are
\* dropped
Tick ==
  /\ \E n \in ElapsedPeriods :
       /\ now + n * TickerPeriod <= MaxTime
       /\ now' = now + n * TickerPeriod
  /\ tick' = TRUE
  /\ UNCHANGED <<tables, entries, dirs, outputs, scratch, evicted, req>>
  /\ UNCHANGED jobVars

\* the test with >= in place of >: an entry idle for exactly the TTL is swept
ExpiredAtTTL(e, t) == t - e.LastAccessed >= TTL

\* cleanupRoutine's test on one entry
Expired(e, t) == t - e.LastAccessed > TTL

\* the objects one pass removes from table k
Swept(k, t) ==
  {tables[k][key] : key \in {x \in Keys : tables[k][x] # Nil
                                          /\ Expired(entries[tables[k][x]], t)}}

\* the swept entries whose external tool is running at the time of the pass:
\* ffmpeg is creating files in the directory that os.RemoveAll is emptying
ToolRunning(gone) ==
  {i \in gone : \E r \in Reqs : req[r].conv = i /\ req[r].pc = "tool"}

\* one pass of cleanupRoutine, all of it under cm.mu. os.RemoveAll empties the
\* directory and then removes it; against a tool that is still writing, the
\* last step can fail with the directory left behind, and the pass drops the
\* result of os.RemoveAll and deletes the key either way
cleanupRoutine ==
  /\ tick
  /\ tick' = FALSE
  /\ LET gone == Swept("hls", now) \cup Swept("thumb", now)
     IN \E kept \in SUBSET ToolRunning(gone) :
          /\ dirs' = dirs \ (gone \ kept)
          /\ outputs' = outputs \ gone
          /\ tables' = [k \in Kinds |-> [key \in Keys |->
                          IF tables[k][key] \in gone THEN Nil ELSE tables[k][key]]]
          /\ evicted' = evicted \cup gone
  /\ UNCHANGED <<now, entries, scratch, req>>
  /\ UNCHANGED jobVars

\* c.AbortWithError / c.File: the request is answered with an HTTP status
Respond(r, code) == [req EXCEPT ![r].pc = "done", ![r].status = code]

\* the handler without its validation of the file name
getVideoOrThumbnailUnchecked(r) ==
  /\ req[r].pc = "idle"
  /\ \E in \in Requests :
       LET arrived == [req[r] EXCEPT !.did = in.did, !.cid = in.cid,
                                     !.path = in.path]
       IN req' = [req EXCEPT ![r] =
            IF in.did = "" \/ in.cid = ""
              THEN [arrived EXCEPT !.pc = "done", !.status = 400]
            ELSE IF Base(in.path) = THUMBNAIL
              THEN [arrived EXCEPT !.pc = "lookup", !.kind = "thumb"]
            ELSE [arrived EXCEPT !.pc = "lookup", !.kind = "hls"]]
  /\ UNCHANGED <<now, tick, tables, entries, dirs, outputs, scratch, evicted>>
  /\ UNCHANGED jobVars

\* getVideoOrThumbnail up to its validation of the file name, and getThumbnail's
\* parameter checks: the request arrives with its route parameters
getVideoOrThumbnail(r) ==
  /\ req[r].pc = "idle"
  /\ \E in \in Requests :
       LET did == in.did
           cid == in.cid
           path == in.path
           filename == Base(path)
           arrived == [req[r] EXCEPT !.did = did, !.cid = cid, !.path = path]
       IN req' = [req EXCEPT ![r] =
            IF did = "" \/ cid = ""
              THEN [arrived EXCEPT !.pc = "done", !.status = 400]
            ELSE IF filename = THUMBNAIL
              THEN [arrived EXCEPT !.pc = "lookup", !.kind = "thumb"]
            ELSE IF filename # PLAYLIST /\ Ext(filename) # ".ts"
              THEN [arrived EXCEPT !.pc = "done", !.status = 400]
            ELSE [arrived EXCEPT !.pc = "lookup", !.kind = "hls"]]
  /\ UNCHANGED <<now, tick, tables, entries, dirs, outputs, scratch, evicted>>
  /\ UNCHANGED jobVars

\* getOrCreate without the Load under the mutex: every caller allocates
getOrCreateNoLoad(r) ==
  /\ req[r].pc = "lookup"
  /\ dirs' = dirs \cup {r}
  /\ entries' = [entries EXCEPT ![r] =
       [allocated |-> TRUE, kind |-> req[r].kind,
        key |-> Key(req[r].did, req[r].cid), LastAccessed |-> now,
        InProgress |-> FALSE, Error |-> "nil"]]
  /\ tables' = [tables EXCEPT ![req[r].kind][Key(req[r].did, req[r].cid)] = r]
  /\ req' = [req EXCEPT ![r].pc = "stat", ![r].conv = r]
  /\ UNCHANGED <<now, tick, outputs, scratch, evicted>>
  /\ UNCHANGED jobVars

\* getOrCreateConversion / getOrCreateThumbnail, all of it under cm.mu:
\* the entry found under the key, refreshed, or a new one over a new directory
getOrCreate(r) ==
  /\ req[r].pc = "lookup"
  /\ LET k == req[r].kind
         key == Key(req[r].did, req[r].cid)
         found == tables[k][key]
     IN IF found # Nil
          THEN /\ entries' = [entries EXCEPT ![found].LastAccessed = now]
               /\ req' = [req EXCEPT ![r].pc = "stat", ![r].conv = found]
               /\ UNCHANGED <<tables, dirs>>
          ELSE \E mkdirOk \in BOOLEAN :
                 IF mkdirOk
                   THEN /\ dirs' = dirs \cup {r}
                        /\ entries' = [entries EXCEPT ![r] =
                             [allocated |-> TRUE, kind |-> k, key |-> key,
                              LastAccessed |-> now, InProgress |-> FALSE,
                              Error |-> "nil"]]
                        /\ tables' = [tables EXCEPT ![k][key] = r]
                        /\ req' = [req EXCEPT ![r].pc = "stat", ![r].conv = r]
                   ELSE /\ req' = Respond(r, 500)
                        /\ UNCHANGED <<tables, entries, dirs>>
  /\ UNCHANGED <<now, tick, outputs, scratch, evicted>>
  /\ UNCHANGED jobVars

\* the handler deriving whatever os.Stat found
osStatIgnored(r) ==
  /\ req[r].pc = "stat"
  /\ req' = [req EXCEPT ![r].pc = "gate", ![r].hit = req[r].conv \in outputs]
  /\ UNCHANGED <<now, tick, tables, entries, dirs, outputs, scratch, evicted>>
  /\ UNCHANGED jobVars

\* os.Stat(playlist.m3u8) / os.Stat(thumb.Path), outside the mutex
osStat(r) ==
  /\ req[r].pc = "stat"
  /\ req' = [req EXCEPT ![r] =
       IF req[r].conv \in outputs
         THEN [req[r] EXCEPT !.pc = "serve", !.hit = TRUE]
         ELSE [req[r] EXCEPT !.pc = "gate"]]
  /\ UNCHANGED <<now, tick, tables, entries, dirs, outputs, scratch, evicted>>
  /\ UNCHANGED jobVars

\* the gate without its test of the flag
deriveGateOpen(r) ==
  /\ req[r].pc = "gate"
  /\ entries' = [entries EXCEPT ![req[r].conv].InProgress = TRUE]
  /\ req' = [req EXCEPT ![r].pc = "download"]
  /\ UNCHANGED <<now, tick, tables, dirs, outputs, scratch, evicted>>
  /\ UNCHANGED jobVars

\* convertToHLS / generateThumbnail: the first locked section, the gate on
\* conv.Converting / thumb.Generating
deriveGate(r) ==
  /\ req[r].pc = "gate"
  /\ LET c == req[r].conv
     IN IF entries[c].InProgress
          THEN /\ req' = [req EXCEPT ![r].pc = "serve", ![r].joined = TRUE]
               /\ UNCHANGED entries
          ELSE /\ entries' = [entries EXCEPT ![c].InProgress = TRUE]
               /\ req' = [req EXCEPT ![r].pc = "download"]
  /\ UNCHANGED <<now, tick, tables, dirs, outputs, scratch, evicted>>
  /\ UNCHANGED jobVars

\* downloadBlob and the caller's handling of its error, outside the mutex
downloadBlob(r) ==
  /\ req[r].pc = "download"
  /\ LET c == req[r].conv
     IN \E outcome \in {"createFailed", "getFailed", "ok"} :
          /\ scratch' = IF outcome = "createFailed" THEN scratch ELSE scratch \cup {r}
          /\ entries' = IF outcome = "ok" THEN entries
                        ELSE [entries EXCEPT ![c].Error = "download"]
          /\ req' = [req EXCEPT ![r] =
               IF outcome = "ok"
                 THEN [req[r] EXCEPT !.pc = "tool", !.dl = TRUE]
                 ELSE [req[r] EXCEPT !.pc = "release", !.ret = "err",
                                     !.dl = (outcome = "getFailed")]]
  /\ UNCHANGED <<now, tick, tables, dirs, outputs, evicted>>
  /\ UNCHANGED jobVars

\* exec.Command("ffmpeg", ...).CombinedOutput(), then the deferred os.Remove(tmpFile):
\* ffmpeg fails when the output directory is gone, and on success has written
\* the playlist and its segments (the thumbnail) into it
runTool(r) ==
  /\ req[r].pc = "tool"
  /\ LET c == req[r].conv
     IN \E toolOk \in IF c \in dirs THEN BOOLEAN ELSE {FALSE} :
          /\ outputs' = IF toolOk THEN outputs \cup {c} ELSE outputs
          /\ entries' = IF toolOk THEN entries
                        ELSE [entries EXCEPT ![c].Error = "ffmpeg"]
          /\ req' = [req EXCEPT ![r].pc = "release", ![r].tool = TRUE,
                                ![r].ret = IF toolOk THEN "nil" ELSE "err"]
  /\ scratch' = scratch \ {r}
  /\ UNCHANGED <<now, tick, tables, dirs, evicted>>
  /\ UNCHANGED jobVars

\* the flag cleared at the end of the function body instead of in a defer:
\* the error returns leave it set
deriveReleaseOnSuccess(r) ==
  /\ req[r].pc = "release"
  /\ entries' = IF req[r].ret = "err" THEN entries
                ELSE [entries EXCEPT ![req[r].conv].InProgress = FALSE]
  /\ req' = IF req[r].ret = "err" THEN Respond(r, 500)
            ELSE [req EXCEPT ![r].pc = "serve"]
  /\ UNCHANGED <<now, tick, tables, dirs, outputs, scratch, evicted>>
  /\ UNCHANGED jobVars

\* the deferred func of convertToHLS / generateThumbnail (second locked
\* section), and the handler's test of the returned error
deriveRelease(r) ==
  /\ req[r].pc = "release"
  /\ entries' = [entries EXCEPT ![req[r].conv].InProgress = FALSE]
  /\ req' = IF req[r].ret = "err" THEN Respond(r, 500)
            ELSE [req EXCEPT ![r].pc = "serve"]
  /\ UNCHANGED <<now, tick, tables, dirs, outputs, scratch, evicted>>
  /\ UNCHANGED jobVars

\* the files of a populated output directory
Servable(kind) == IF kind = "hls" THEN {PLAYLIST, SEGMENT0} ELSE {THUMBNAIL}

\* c.File(filepath.Join(conv.OutputDir, filename)) / c.File(thumb.Path)
serveFile(r) ==
  /\ req[r].pc = "serve"
  /\ req' = Respond(r, IF req[r].conv \in outputs
                          /\ Base(req[r].path) \in Servable(req[r].kind)
                       THEN 200 ELSE 404)
  /\ UNCHANGED <<now, tick, tables, entries, dirs, outputs, scratch, evicted>>
  /\ UNCHANGED jobVars

\* the steps of a request that run between cm.mu.Lock and cm.mu.Unlock:
\* getOrCreateConversion / getOrCreateThumbnail, the gate, the deferred func
LockedSteps == {"lookup", "gate", "release"}

ArtifactNext ==
  \/ Tick
  \/ cleanupRoutine
  \/ \E r \in Reqs : getVideoOrThumbnail(r)
  \/ \E r \in Reqs : getOrCreate(r)
  \/ \E r \in Reqs : osStat(r)
  \/ \E r \in Reqs : deriveGate(r)
  \/ \E r \in Reqs : downloadBlob(r)
  \/ \E r \in Reqs : runTool(r)
  \/ \E r \in Reqs : deriveRelease(r)
  \/ \E r \in Reqs : serveFile(r)

(* ------------------------------ the jobs ------------------------------- *)
JobIds == 1..MaxJobs
\* the "did" query parameter of an upload, and the ALLOWED_DIDS configurations
UploadDIDs == {"did:a", "did:b"}
AllowLists == {{}, {"did:a"}}

NoJob == [ID |-> 0, userDID |-> "", state |-> "", progress |-> 0, err |-> "nil",
          blob |-> "nil", token |-> "", contentType |-> ""]
NoQuery == [id |-> 0, found |-> FALSE, status |-> [state |-> "none", progress |-> 0],
            answered |-> FALSE, untouched |-> FALSE]
\* the blob references a storage endpoint returns
BlobRefs == {"bafy123", "bafy456"}
\* fetch and reply record what the identity resolver and the storage endpoint
\* answered this worker
IdleWorker == [pc |-> "none", job |-> NoJob, sent |-> 0,
               fetch |-> "none", reply |-> "nil"]

JobInit ==
  /\ allowedDIDs \in AllowLists
  /\ jobs = [j \in JobIds |-> NoJob]
  /\ up = [j \in JobIds |-> [pc |-> "idle", status |-> 0]]
  /\ worker = [j \in JobIds |-> IdleWorker]
  /\ stored = [j \in JobIds |-> <<>>]
  /\ query = NoQuery
  /\ crashed = FALSE

\* s.jobs.Store(job.ID, job) for each Job of js in turn, all of them job j's
Store(j, js) ==
  /\ jobs' = IF js = <<>> THEN jobs ELSE [jobs EXCEPT ![j] = js[Len(js)]]
  /\ stored' = [stored EXCEPT ![j] = @ \o js]

\* uploadVideo leaving the first Store to the worker
uploadVideoNoStore(j) ==
  /\ ~crashed
  /\ up[j].pc = "idle"
  /\ up' = [up EXCEPT ![j].pc = "go"]
  /\ UNCHANGED <<allowedDIDs, jobs, stored, worker, query, crashed>>
  /\ UNCHANGED artifactVars

\* uploadVideo up to s.jobs.Store: the allow-list check, the fresh id (the
\* handler's own: gonanoid ids do not repeat), the body read, the new Job
uploadVideo(j) ==
  /\ ~crashed
  /\ up[j].pc = "idle"
  /\ \E userDID \in UploadDIDs, bodyRead \in BOOLEAN :
       IF allowedDIDs # {} /\ userDID \notin allowedDIDs
         THEN /\ up' = [up EXCEPT ![j] = [pc |-> "done", status |-> 403]]
              /\ UNCHANGED <<jobs, stored>>
       ELSE IF ~bodyRead
         THEN /\ up' = [up EXCEPT ![j] = [pc |-> "done", status |-> 500]]
              /\ UNCHANGED <<jobs, stored>>
       ELSE /\ Store(j, <<[ID |-> j, userDID |-> userDID, state |-> "processing",
                          progress |-> ProgressCreated, err |-> "nil",
                          blob |-> "nil", token |-> "Bearer t",
                          contentType |-> "video/mp4"]>>)
            /\ up' = [up EXCEPT ![j].pc = "go"]
  /\ UNCHANGED <<allowedDIDs, worker, query, crashed>>
  /\ UNCHANGED artifactVars

\* go s.process(job, body): the worker starts with its own copy of the Job
uploadVideoGo(j) ==
  /\ ~crashed
  /\ up[j].pc = "go"
  /\ worker' = [worker EXCEPT ![j] = [IdleWorker EXCEPT !.pc = "fetchUser",
                                                         !.job = jobs[j]]]
  /\ up' = [up EXCEPT ![j].pc = "respond"]
  /\ UNCHANGED <<allowedDIDs, jobs, stored, query, crashed>>
  /\ UNCHANGED artifactVars

\* c.JSON(200, job.ToBsky()): the upload is answered with the job id
uploadVideoRespond(j) ==
  /\ ~crashed
  /\ up[j].pc = "respond"
  /\ up' = [up EXCEPT ![j] = [pc |-> "done", status |-> 200]]
  /\ UNCHANGED <<allowedDIDs, jobs, worker, stored, query, crashed>>
  /\ UNCHANGED artifactVars

\* process marking the Job failed without recording the error
processReturnNoErr(job, err) ==
  IF err # "nil"
    THEN <<[job EXCEPT !.state = "JOB_STATE_FAILED"]>>
    ELSE <<>>

\* process logging the error without storing the failed Job
processReturnSilent(job, err) == <<>>

\* process without its test of err
processReturnAlways(job, err) ==
  <<[job EXCEPT !.err = err, !.state = "JOB_STATE_FAILED"]>>

\* State.process after processJob returned err, the Jobs it stores: job is
\* process's own copy, which processJob (called by value) never changed
processReturn(job, err) ==
  IF err # "nil"
    THEN <<[job EXCEPT !.err = err, !.state = "JOB_STATE_FAILED"]>>
    ELSE <<>>

\* processJob: s.storage.fetchUser and the test of u.pdsUrl, then progress 10
processJobFetchUser(j) ==
  /\ ~crashed
  /\ worker[j].pc = "fetchUser"
  /\ \E outcome \in {"fetchFailed", "noPDS", "resolved"} :
       IF outcome = "resolved"
         THEN /\ Store(j, <<[worker[j].job EXCEPT !.progress = ProgressResolved]>>)
              /\ worker' = [worker EXCEPT ![j].pc = "relay", ![j].fetch = outcome]
         ELSE /\ Store(j, processReturn(worker[j].job,
                            IF outcome = "noPDS" THEN "user has no PDS"
                            ELSE "failed to fetch user"))
              /\ worker' = [worker EXCEPT ![j].pc = "exit", ![j].fetch = outcome]
  /\ UNCHANGED <<allowedDIDs, up, query, crashed>>
  /\ UNCHANGED artifactVars

\* the completed Job without the blob of the reply
CompletedNoBlob(job, ref) ==
  [job EXCEPT !.progress = ProgressCompleted, !.state = "JOB_STATE_COMPLETED"]

\* processJob's last block: progress 100, JOB_STATE_COMPLETED, out.Blob
Completed(job, ref) ==
  [job EXCEPT !.progress = ProgressCompleted, !.state = "JOB_STATE_COMPLETED",
              !.blob = ref]

\* processJob with a retry loop around the relay: a transport error or a
\* non-success answer sends the request again
processJobRelayRetry(j) ==
  /\ ~crashed
  /\ worker[j].pc = "relay"
  /\ \E outcome \in {"newRequestFailed", "transportError", "readFailed",
                     "notOK", "badJSON", "noBlob", "uploaded"},
        ref \in BlobRefs :
       /\ worker' = [worker EXCEPT
            ![j].pc = IF outcome = "noBlob" THEN "panic"
                      ELSE IF outcome \in {"transportError", "notOK"} THEN "relay"
                      ELSE "exit",
            ![j].sent = IF outcome = "newRequestFailed" THEN @ ELSE @ + 1,
            ![j].reply = IF outcome = "uploaded" THEN ref ELSE @]
       /\ crashed' = (outcome = "noBlob")
       /\ IF outcome = "uploaded"
            THEN Store(j, <<Completed(worker[j].job, ref)>>
                          \o processReturn(worker[j].job, "nil"))
          ELSE IF outcome \in {"noBlob", "transportError", "notOK"}
            THEN UNCHANGED <<jobs, stored>>
          ELSE Store(j, processReturn(worker[j].job,
                 IF outcome = "newRequestFailed" THEN "failed to create req"
                 ELSE IF outcome = "badJSON" THEN "failed to unmarshall upload result"
                 ELSE "upload error"))
  /\ UNCHANGED <<allowedDIDs, up, query>>
  /\ UNCHANGED artifactVars

\* processJob from http.NewRequest on, and process after its return: the relay
\* to the storage endpoint, the reading of its answer, and the completed Job
\* (a copy of processJob's, progress 10); log.Printf("uploaded! %s",
\* out.Blob.Ref) dereferences out.Blob, nil when the body carries no blob
processJobRelay(j) ==
  /\ ~crashed
  /\ worker[j].pc = "relay"
  /\ \E outcome \in {"newRequestFailed", "transportError", "readFailed",
                     "notOK", "badJSON", "noBlob", "uploaded"},
        ref \in BlobRefs :
       /\ worker' = [worker EXCEPT
            ![j].pc = IF outcome = "noBlob" THEN "panic" ELSE "exit",
            ![j].sent = IF outcome = "newRequestFailed" THEN @ ELSE @ + 1,
            ![j].reply = IF outcome = "uploaded" THEN ref ELSE @]
       /\ crashed' = (outcome = "noBlob")
       /\ IF outcome = "uploaded"
            THEN Store(j, <<Completed(worker[j].job, ref)>>
                          \o processReturn(worker[j].job, "nil"))
          ELSE IF outcome = "noBlob"
            THEN UNCHANGED <<jobs, stored>>
          ELSE Store(j, processReturn(worker[j].job,
                 IF outcome = "newRequestFailed" THEN "failed to create req"
                 ELSE IF outcome = "badJSON" THEN "failed to unmarshall upload result"
                 ELSE "upload error"))
  /\ UNCHANGED <<allowedDIDs, up, query>>
  /\ UNCHANGED artifactVars

\* Job.ToBsky: the state of the answer, or a panic
ToBsky(job) ==
  IF job.state = "processing" THEN [state |-> job.state, progress |-> job.progress]
  ELSE IF job.state = "JOB_STATE_COMPLETED"
    THEN [state |-> job.state, progress |-> job.progress]
  ELSE IF job.state = "JOB_STATE_FAILED"
    THEN IF job.err = "nil" THEN [state |-> "panic", progress |-> 0]
         ELSE [state |-> job.state, progress |-> job.progress]
  ELSE [state |-> "panic", progress |-> 0]

\* getJobStatus: s.jobs.Load and the answer; answered and untouched record
\* whether the upload had been answered and the worker had not yet stepped
getJobStatus ==
  /\ ~crashed
  /\ \E jobID \in JobIds :
       query' = [id |-> jobID,
                 found |-> jobs[jobID] # NoJob,
                 status |-> IF jobs[jobID] # NoJob THEN ToBsky(jobs[jobID])
                            ELSE [state |-> "invalid job id", progress |-> 0],
                 answered |-> (up[jobID].pc = "done" /\ up[jobID].status = 200),
                 untouched |-> worker[jobID].pc \in {"none", "fetchUser"}]
  /\ UNCHANGED <<allowedDIDs, jobs, up, worker, stored, crashed>>
  /\ UNCHANGED artifactVars

JobNext ==
  \/ \E j \in JobIds : uploadVideo(j)
  \/ \E j \in JobIds : uploadVideoGo(j)
  \/ \E j \in JobIds : uploadVideoRespond(j)
  \/ \E j \in JobIds : processJobFetchUser(j)
  \/ \E j \in JobIds : processJobRelay(j)
  \/ getJobStatus

(* --------------------------- specifications ---------------------------- *)
InitJobs == ArtifactInit /\ JobInit
\* the cache does not read the allow-list
Init == InitJobs /\ allowedDIDs = {}
\* the cache, its requests and its sweeper
Next == ArtifactNext
Spec == Init /\ [][Next]_vars
\* the upload jobs
NextJobs == JobNext
JobSpec == InitJobs /\ [][NextJobs]_vars
\* the upload jobs with the scheduling the claim of termination assumes: a
\* started goroutine keeps running, and fetchUser and the storage endpoint
\* answer
FairJobSpec ==
  /\ JobSpec
  /\ \A j \in JobIds : /\ WF_vars(uploadVideoGo(j))
                       /\ WF_vars(processJobFetchUser(j))
                       /\ WF_vars(processJobRelay(j))

(* ------------------------------- claims -------------------------------- *)
Slots == Kinds \X Keys
\* the requests of one cache slot that satisfy P
OfSlot(sl) == {r \in Reqs : /\ req[r].pc \notin {"idle"}
                            /\ req[r].kind = sl[1]
                            /\ Key(req[r].did, req[r].cid) = sl[2]
                            /\ req[r].conv # Nil}
\* a derivation (blob download, then tool run) is executing in request r
Deriving(r) == req[r].pc \in {"download", "tool"}

\* C1: in every reachable state at most one derivation (download plus tool
\* run) is executing for a (subject, content-id, kind) key
C1_SingleFlight ==
  \A sl \in Slots : Cardinality({r \in OfSlot(sl) : Deriving(r)}) <= 1

\* C2: callers of get-or-create for the same key whose entry the sweeper has
\* not removed all hold the one registered entry, over one allocated directory
C2_SingleAllocation ==
  \A sl \in Slots :
    LET live == {i \in ObjIds : /\ entries[i].allocated
                                /\ entries[i].kind = sl[1]
                                /\ entries[i].key = sl[2]
                                /\ i \notin evicted}
    IN /\ Cardinality(live) <= 1
       /\ \A r \in OfSlot(sl) :
            req[r].conv \notin evicted => /\ tables[sl[1]][sl[2]] = req[r].conv
                                          /\ req[r].conv \in dirs
C2_Witness ==
  \E r1, r2 \in Reqs :
    /\ r1 # r2
    /\ req[r1].pc = "stat" /\ req[r2].pc = "stat"
    /\ req[r1].conv = req[r2].conv
    /\ req[r1].conv # Nil
    /\ evicted = {}

\* C3: a derivation attempt on an entry whose in-progress flag is set is a
\* no-op: the entry (flag, error) and the disk are unchanged, the attempt
\* returns to the handler, and that request never downloads or runs the tool
C3_GateNoOp ==
  [][\A r \in Reqs :
       /\ (/\ req[r].pc = "gate"
           /\ req'[r].pc # "gate"
           /\ entries[req[r].conv].InProgress)
          => /\ entries' = entries
             /\ req'[r].pc = "serve"
             /\ req'[r].joined
             /\ <<dirs', outputs', scratch'>> = <<dirs, outputs, scratch>>
       /\ req[r].joined => /\ ~req'[r].dl
                           /\ ~req'[r].tool]_vars
C3_Witness ==
  \E r \in Reqs : req[r].joined /\ req[r].pc = "done"

\* C4: with no eviction and no failed derivation, the requests for one key
\* make one blob download and one tool invocation in total
C4_OneDerivation ==
  (evicted = {} /\ \A i \in ObjIds : entries[i].Error = "nil")
    => \A sl \in Slots :
         /\ Cardinality({r \in OfSlot(sl) : req[r].dl}) <= 1
         /\ Cardinality({r \in OfSlot(sl) : req[r].tool}) <= 1

\* C5: a request that found a derivation in progress for its key does not
\* serve the file while the entry's in-progress flag is still set
C5_WaitsForDerivation ==
  [][\A r \in Reqs :
       (req[r].joined /\ req[r].pc = "serve" /\ req'[r].pc = "done")
         => ~entries[req[r].conv].InProgress]_vars

\* C6: the states stored for a job move forward only, processing to completed
\* or failed: nothing is stored after a completed or failed record
C6_StateForward ==
  \A j \in JobIds :
    \A n \in 1..Len(stored[j]) :
      /\ stored[j][n].state \in {"processing", "JOB_STATE_COMPLETED", "JOB_STATE_FAILED"}
      /\ n < Len(stored[j]) => stored[j][n].state = "processing"
C6_Witness ==
  \E j, k \in JobIds :
    /\ Len(stored[j]) = 3 /\ stored[j][3].state = "JOB_STATE_COMPLETED"
    /\ Len(stored[k]) = 3 /\ stored[k][3].state = "JOB_STATE_FAILED"
    /\ worker[j].pc = "exit" /\ worker[k].pc = "exit"

\* C7: the progress stored for a job never decreases
C7_ProgressMonotonic ==
  \A j \in JobIds :
    \A n \in 1..(Len(stored[j]) - 1) :
      stored[j][n].progress <= stored[j][n + 1].progress

\* C8: a status query for a job whose upload has been answered finds the job,
\* and before the worker has stepped it reports processing, progress >= 1
C8_VisibleOnceAnswered ==
  query.answered
    => /\ query.found
       /\ query.untouched => /\ query.status.state = "processing"
                             /\ query.status.progress >= 1
C8_Witness ==
  /\ query.answered
  /\ query.untouched
  /\ query.found

\* C9: after a sweeper pass, every entry whose last access was more than TTL
\* before the pass is out of its table and its directory is off the disk
C9_Eviction ==
  [][(tick /\ ~tick')
       => \A k \in Kinds, key \in Keys :
            LET i == tables[k][key]
            IN (i # Nil /\ now - entries[i].LastAccessed > TTL)
                 => /\ tables'[k][key] = Nil
                    /\ i \notin dirs'
                    /\ i \notin outputs']_vars

\* C10: a request that finds the derived output present downloads nothing,
\* runs no tool, changes neither the disk nor the entry, and is answered with
\* the file while the output is there
C10_CacheHit ==
  [][\A r \in Reqs :
       req'[r].hit
         => /\ ~req'[r].dl
            /\ ~req'[r].tool
            /\ req'[r].pc \in {"serve", "done"}
            /\ req'[r] # req[r]
                 => <<entries', dirs', outputs', scratch'>>
                      = <<entries, dirs, outputs, scratch>>
            /\ (req[r].pc = "serve" /\ req'[r].pc = "done"
                /\ req[r].conv \in outputs
                /\ Base(req[r].path) \in {PLAYLIST, SEGMENT0, THUMBNAIL})
                 => req'[r].status = 200]_vars
C10_Witness ==
  \E r \in Reqs : req[r].hit /\ req[r].pc = "done" /\ req[r].status = 200

\* a request is about to serve, or has just been handed, a file of entry i
Serving(i) == \E r \in Reqs : req[r].conv = i /\ req[r].pc = "serve"

\* C11: a sweeper pass removes no entry, and deletes no directory, of an entry
\* whose derivation is in progress or from which a request is serving a file
C11_SweepSparesActive ==
  [][(tick /\ ~tick')
       => \A k \in Kinds, key \in Keys :
            LET i == tables[k][key]
            IN (i # Nil /\ (entries[i].InProgress \/ Serving(i)))
                 => /\ tables'[k][key] = i
                    /\ (i \in dirs) = (i \in dirs')
                    /\ (i \in outputs) = (i \in outputs')]_vars

\* C12: whatever the identity resolver and the storage endpoint answer, the
\* Upload Worker does not crash the process, and a worker that has ended left
\* its job stored as failed with an error or as completed
C12_WorkerNeverCrashes ==
  /\ ~crashed
  /\ \A j \in JobIds :
       /\ worker[j].pc # "panic"
       /\ worker[j].pc = "exit"
            => \/ jobs[j].state = "JOB_STATE_COMPLETED"
               \/ jobs[j].state = "JOB_STATE_FAILED" /\ jobs[j].err # "nil"

\* C13: a job stored as completed has progress 100 and the blob reference the
\* storage endpoint returned, and the record stored before it is processing
\* with progress 10, the one relay request having been sent
C13_CompletedJob ==
  \A j \in JobIds :
    \A n \in 1..Len(stored[j]) :
      stored[j][n].state = "JOB_STATE_COMPLETED"
        => /\ stored[j][n].progress = 100
           /\ stored[j][n].blob \in BlobRefs
           /\ stored[j][n].blob = worker[j].reply
           /\ n > 1
           /\ stored[j][n - 1].state = "processing"
           /\ stored[j][n - 1].progress = 10
           /\ worker[j].fetch = "resolved"
           /\ worker[j].sent = 1
C13_Witness ==
  \E j, k \in JobIds :
    /\ jobs[j].state = "JOB_STATE_COMPLETED" /\ jobs[j].blob = "bafy123"
    /\ jobs[k].state = "JOB_STATE_COMPLETED" /\ jobs[k].blob = "bafy456"

\* C14: when identity resolution fails or yields no storage endpoint, the job
\* goes from processing to failed with its error, no relay request is sent for
\* it and its progress is never 10
C14_ResolutionFailure ==
  \A j \in JobIds :
    worker[j].fetch \in {"fetchFailed", "noPDS"}
      => /\ Len(stored[j]) = 2
         /\ stored[j][1].state = "processing"
         /\ stored[j][2].state = "JOB_STATE_FAILED"
         /\ stored[j][2].err # "nil"
         /\ jobs[j] = stored[j][2]
         /\ worker[j].sent = 0
         /\ worker[j].pc = "exit"
         /\ \A n \in 1..Len(stored[j]) : stored[j][n].progress # 10
C14_Witness ==
  \E j, k \in JobIds :
    /\ worker[j].fetch = "fetchFailed" /\ jobs[j].err = "failed to fetch user"
    /\ worker[k].fetch = "noPDS" /\ jobs[k].err = "user has no PDS"

\* the request paths that name no playlist, segment or thumbnail
BadPaths == {<<DOTDOT, SECRET>>, <<VIDEOMP4>>}

\* C15: a request for a file name other than playlist.m3u8, a .ts segment or
\* thumbnail.jpg is answered with an error on arrival; it holds no entry,
\* downloads nothing, runs no tool, and its step changes neither the tables,
\* the entries nor the disk
C15_BadNameRejected ==
  [][\A r \in Reqs :
       (req'[r].pc # "idle" /\ req'[r].path \in BadPaths)
         => /\ req'[r].pc = "done"
            /\ req'[r].status = 400
            /\ req'[r].conv = Nil
            /\ ~req'[r].dl
            /\ ~req'[r].tool
            /\ req'[r] # req[r]
                 => <<tables', entries', dirs', outputs', scratch'>>
                      = <<tables, entries, dirs, outputs, scratch>>]_vars
C15_Witness ==
  \E r1, r2 \in Reqs :
    /\ req[r1].pc = "done" /\ req[r1].path = <<DOTDOT, SECRET>>
    /\ req[r1].did = "did1" /\ req[r1].cid = "cid1"
    /\ req[r2].pc = "done" /\ req[r2].path = <<VIDEOMP4>>

\* C16: once a derivation on an entry has failed (its error is recorded), no
\* request starts another download or tool run on that entry
C16_NoRetryAfterFailure ==
  [][\A r \in Reqs :
       (req[r].pc = "gate" /\ req'[r].pc = "download")
         => entries[req[r].conv].Error = "nil"]_vars

\* C17: after convertToHLS / generateThumbnail has returned, the scratch file
\* its run created is no longer on disk
C17_ScratchRemoved ==
  \A r \in Reqs : req[r].pc \in {"serve", "done"} => r \notin scratch

\* C18: a derivation that ends successfully leaves the entry without a
\* recorded error
C18_ErrorClearedOnSuccess ==
  [][\A r \in Reqs :
       (req[r].pc = "tool" /\ req'[r].pc = "release" /\ req'[r].ret = "nil")
         => entries'[req[r].conv].Error = "nil"]_vars

\* the requests inside convertToHLS / generateThumbnail on entry i, past the gate
DerivingOn(i) ==
  {r \in Reqs : req[r].conv = i /\ req[r].pc \in {"download", "tool", "release"}}

\* C19: an entry's in-progress flag is set exactly while one derivation on
\* that entry is between the gate and its deferred func: every exit path
\* clears it
C19_FlagWhileDeriving ==
  \A i \in ObjIds :
    /\ entries[i].InProgress <=> DerivingOn(i) # {}
    /\ Cardinality(DerivingOn(i)) <= 1
C19_Witness ==
  \E r1, r2 \in Reqs :
    /\ req[r1].conv = req[r2].conv
    /\ req[r1].pc = "done" /\ req[r1].status = 500 /\ req[r1].ret = "err"
    /\ req[r2].pc = "done" /\ req[r2].status = 200 /\ req[r2].tool
    /\ ~entries[req[r1].conv].InProgress

\* C20: a directory allocated by the store is on disk only while its entry is
\* registered under its key
C20_StorageOnlyWithEntry ==
  \A i \in dirs \cup outputs :
    /\ entries[i].allocated
    /\ i \in dirs
    /\ tables[entries[i].kind][entries[i].key] = i

\* C21: over a job's lifetime its worker sends at most one relay request: the
\* count never passes one, and once a request has been sent, whatever the
\* answer, no later step sends another
C21_OneRelayAttempt ==
  [][\A j \in JobIds :
       /\ worker'[j].sent <= 1
       /\ worker[j].sent = 1 => worker'[j].sent = 1]_vars
C21_Witness ==
  \E j \in JobIds :
    /\ worker[j].sent = 1 /\ worker[j].pc = "exit"
    /\ jobs[j].state = "JOB_STATE_FAILED" /\ jobs[j].err = "upload error"

\* C22: a step of a request that changes a mutable field of an entry
\* (LastAccessed, InProgress, Error) is one that runs holding cm.mu
C22_FieldsUnderLock ==
  [][\A r \in Reqs :
       (req'[r].pc # req[r].pc /\ entries' # entries)
         => req[r].pc \in LockedSteps]_vars

\* C23: every Job stored in a terminal state no longer carries the credential
\* token of the upload
C23_TokenDropped ==
  \A j \in JobIds : \A k \in 1..Len(stored[j]) :
    stored[j][k].state \in {"JOB_STATE_COMPLETED", "JOB_STATE_FAILED"}
      => stored[j][k].token = ""

\* C24: with a fairly scheduled worker and answering endpoints, every job
\* stored as processing is eventually stored as completed or failed
C24_JobTerminates ==
  \A j \in JobIds :
    (jobs[j].state = "processing")
      ~> (jobs[j].state \in {"JOB_STATE_COMPLETED", "JOB_STATE_FAILED"})

\* C25: a sweeper pass leaves in place every entry whose last access, as the
\* pass finds it, is no more than TTL old: its key stays in the table and its
\* directory and output stay on disk
C25_LiveEntryKept ==
  [][(tick /\ ~tick')
       => \A k \in Kinds, key \in Keys :
            LET i == tables[k][key]
            IN (i # Nil /\ now - entries[i].LastAccessed <= TTL)
                 => /\ tables'[k][key] = i
                    /\ (i \in dirs => i \in dirs')
                    /\ (i \in outputs => i \in outputs')]_vars
C25_Witness ==
  \E k \in Kinds, key \in Keys :
    LET i == tables[k][key]
    IN /\ i # Nil /\ i \in outputs
       /\ ~tick
       /\ entries[i].LastAccessed < now
       /\ now - entries[i].LastAccessed <= TTL

\* C26: every Job ever stored has one of the three states ToBsky knows, a
\* failed one carries an error, and no status query ends in ToBsky's panic
C26_StoredJobsValid ==
  /\ \A j \in JobIds : \A k \in 1..Len(stored[j]) :
       /\ stored[j][k].state \in {"processing", "JOB_STATE_COMPLETED",
                                  "JOB_STATE_FAILED"}
       /\ stored[j][k].state = "JOB_STATE_FAILED" => stored[j][k].err # "nil"
  /\ query.status.state # "panic"
C26_Witness ==
  /\ query.found
  /\ query.status.state = "JOB_STATE_FAILED"
  /\ \E j \in JobIds : jobs[j].state = "JOB_STATE_COMPLETED"

====
